---- MODULE Spec2Model ----
(***************************************************************************)
(* A model of the TensionHighlighter component (analyzeText and its        *)
(* helpers), of the useNLP hook and of the two NLP detectors.              *)
(*                                                                         *)
(* Texts are sequences of one-character strings, so that offsets,          *)
(* substring, escaping and splicing are computed character by character.   *)
(* The tokenizer (wink-nlp) is an external library: what it answers for a  *)
(* text (the tags of each word, the phrase matches, whether it throws) is  *)
(* chosen by the environment.                                              *)
(***************************************************************************)
EXTENDS Integers, Sequences, FiniteSets, TLC

VARIABLES
    inputText,        \* useState('')      TensionHighlighter.tsx:7
    highlightedText,  \* useState('')      TensionHighlighter.tsx:8
    isAnalyzing,      \* useState(false)   TensionHighlighter.tsx:9
    stats,            \* useState({...})   TensionHighlighter.tsx:10
    nlp,              \* useState(null)    useNLP
    isLoaded,         \* useState(false)   useNLP
    error,            \* useState(null)    useNLP
    nlpPc,            \* position of initializeNLP
    pending,          \* invocations of analyzeText suspended at the await
    frame             \* locals and outcome of the latest invocation that ran

vars == <<inputText, highlightedText, isAnalyzing, stats, nlp, isLoaded,
          error, nlpPc, pending, frame>>

----------------------------------------------------------------------------
(* Bounds                                                                  *)

\* longest text typed in the interactive specification (Spec, FairSpec)
MaxLen == 1
\* longest text analysed in the one-shot specification (SpecAnalyze)
MaxAnalyzeLen == 3
\* span offsets range over 0..MaxPos in the overlap specification (SpecFilter)
MaxPos == 3
\* most spans the three detectors return together in SpecFilter
MaxSpans == 3

----------------------------------------------------------------------------
(* Characters and texts                                                    *)

Letters == {"a", "A", "b"}

WhitespaceChars == {" ", "\n"}

\* the characters of the texts analysed in the one-shot specification
Alphabet == Letters \cup {"\n", "&", "<", ">"}

\* the characters typed in the interactive specification
TypedChars == {"a", "b", " "}

TextsOver(chars, n) == UNION { [1..k -> chars] : k \in 0..n }

NULL == "null"

WinkInstance == "winkNLP"

LoadError == "Error"

Min(S) == CHOOSE m \in S : \A o \in S : m <= o

Clamp(i, n) == IF i < 0 THEN 0 ELSE IF i > n THEN n ELSE i

\* String.prototype.substring(a, b): both ends clamped to the string, swapped
\* when a > b
substring(s, a, b) ==
    LET x == Clamp(a, Len(s))
        y == Clamp(b, Len(s))
        lo == IF x <= y THEN x ELSE y
        hi == IF x <= y THEN y ELSE x
    IN  SubSeq(s, lo + 1, hi)

substringFrom(s, a) == substring(s, a, Len(s))

\* String.prototype.replace(/ch/g, repl): every occurrence of the character,
\* left to right
RECURSIVE replaceAll(_, _, _)
replaceAll(s, ch, repl) ==
    LET found == { i \in 1..Len(s) : s[i] = ch }
    IN  IF found = {} THEN s
        ELSE SubSeq(s, 1, Min(found) - 1) \o repl
             \o replaceAll(SubSeq(s, Min(found) + 1, Len(s)), ch, repl)

LowerChar(ch) == IF ch = "A" THEN "a" ELSE ch

toLowerCase(s) == [i \in 1..Len(s) |-> LowerChar(s[i])]

RECURSIVE trimStart(_)
trimStart(s) ==
    IF s # <<>> /\ Head(s) \in WhitespaceChars THEN trimStart(Tail(s)) ELSE s

RECURSIVE trimEnd(_)
trimEnd(s) ==
    IF s # <<>> /\ s[Len(s)] \in WhitespaceChars
    THEN trimEnd(SubSeq(s, 1, Len(s) - 1)) ELSE s

trim(s) == trimEnd(trimStart(s))

RECURSIVE Flatten(_)
Flatten(ss) == IF ss = <<>> THEN <<>> ELSE Head(ss) \o Flatten(Tail(ss))

----------------------------------------------------------------------------
(* Markup literals                                                         *)

AmpEntity == <<"&", "a", "m", "p", ";">>

LtEntity == <<"&", "l", "t", ";">>

GtEntity == <<"&", "g", "t", ";">>

\* A tag is kept whole, as one element of the markup; the characters of the
\* text and of the entities are one element each.
BrTag == << "<br>" >>

SpanOpen(class) == << "<span class=\"" \o class \o "\">" >>

SpanClose == << "</span>" >>

\* so are the two fixed messages
EmptyInputMarkup == << "<p class=\"text-gray-500\">Please enter some text to analyze.</p>" >>

FailedMarkup == << "<p class=\"text-red-500\">Analysis failed. Please try again.</p>" >>

ZeroStats == [total |-> 0, tension |-> 0, absolutism |-> 0, inversion |-> 0]

----------------------------------------------------------------------------
(* escapeHtml                                                              *)

escapeHtml_ampLast(text) ==
    replaceAll(replaceAll(replaceAll(text, "<", LtEntity), ">", GtEntity), "&", AmpEntity)

escapeHtml(text) ==
    replaceAll(replaceAll(replaceAll(text, "&", AmpEntity), "<", LtEntity), ">", GtEntity)

----------------------------------------------------------------------------
(* Tension detector                                                        *)

\* The pattern library: an ordered list of rules, each searched globally, here
\* two literal phrases; the second matches inside the matches of the first.
TENSION_PATTERNS == << <<"b", "b">>, <<"b">> >>

MatchesAt(pattern, text, i) ==
    /\ i + Len(pattern) <= Len(text)
    /\ \A k \in 1..Len(pattern) : text[i + k] = pattern[k]

\* the while loop around pattern.exec(text): each match starts the next search
\* at its end (lastIndex), and the loop ends at the first null
RECURSIVE execAll(_, _, _)
execAll(pattern, text, lastIndex) ==
    LET found == { i \in lastIndex..Len(text) : MatchesAt(pattern, text, i) }
    IN  IF found = {} THEN <<>>
        ELSE LET i == Min(found)
             IN  << [text |-> substring(text, i, i + Len(pattern)),
                     start |-> i,
                     end |-> i + Len(pattern),
                     type |-> "tension"] >>
                 \o execAll(pattern, text, i + Len(pattern))

findTensionPhrases(text) ==
    Flatten([p \in 1..Len(TENSION_PATTERNS) |-> execAll(TENSION_PATTERNS[p], text, 0)])

----------------------------------------------------------------------------
(* The tokenizer's answers (wink-nlp, external)                            *)

\* Words are the maximal runs of letters; offsets count from 0.
WordStarts(text) ==
    { i \in 0..(Len(text) - 1) :
        text[i + 1] \in Letters /\ (i = 0 \/ text[i] \notin Letters) }

WordEnd(text, i) ==
    Min({ j \in (i + 1)..Len(text) : j = Len(text) \/ text[j + 1] \notin Letters })

RECURSIVE SortedSeq(_)
SortedSeq(S) == IF S = {} THEN <<>> ELSE <<Min(S)>> \o SortedSeq(S \ {Min(S)})

\* What the tagger may say of a word: its part of speech, its lemma, and which
\* of the detectors' word tests its lowercase surface form passes.
Lexicon ==
    { [pos |-> "NN",  lemma |-> "thing",      wordIn |-> {}],
      [pos |-> "RBS", lemma |-> "most",       wordIn |-> {}],
      [pos |-> "RB",  lemma |-> "never",      wordIn |-> {"absoluteWords"}],
      [pos |-> "RB",  lemma |-> "vastly",     wordIn |-> {}],
      [pos |-> "MD",  lemma |-> "can't",      wordIn |-> {"negativeContractions"}],
      [pos |-> "JJ",  lemma |-> "impossible", wordIn |-> {"absoluteWords", "negativePrefixes"}] }

\* A phrase pattern matches from the start of a word to the end of a later
\* word, over words separated by whitespace.
PhraseMatches(text) ==
    { [text |-> substring(text, s, WordEnd(text, e)), start |-> s] :
        <<s, e>> \in { p \in WordStarts(text) \X WordStarts(text) :
            /\ p[1] < p[2]
            /\ \A k \in (p[1] + 1)..WordEnd(text, p[2]) :
                   text[k] \in Letters \cup WhitespaceChars } }

PhraseChoices(text) == {<<>>} \cup { <<m>> : m \in PhraseMatches(text) }

\* nlp.readDoc(text): the tokens with their tags, and the matches of the
\* absolutism and inversion phrase patterns in its sentences
Docs(text) ==
    LET starts == SortedSeq(WordStarts(text))
    IN  { [tokens |-> [k \in 1..Len(starts) |->
                         [text |-> substring(text, starts[k], WordEnd(text, starts[k])),
                          offset |-> starts[k],
                          pos |-> lex[k].pos,
                          lemma |-> lex[k].lemma,
                          wordIn |-> lex[k].wordIn]],
           absPhrases |-> ap,
           invPhrases |-> ip] :
          lex \in [1..Len(starts) -> Lexicon],
          ap \in PhraseChoices(text),
          ip \in PhraseChoices(text) }

NoDoc == [tokens |-> <<>>, absPhrases |-> <<>>, invPhrases |-> <<>>]

----------------------------------------------------------------------------
(* Absolutism and inversion detectors                                      *)

absoluteWords ==
    {"never", "always", "forever", "eternal", "infinite", "absolute",
     "complete", "total", "entire", "whole", "all", "every", "none",
     "nothing", "everything", "everyone", "nobody", "anywhere",
     "everywhere", "nowhere", "perfect", "impossible", "ultimate"}

intensifiers ==
    {"extremely", "incredibly", "unbelievably", "remarkably",
     "exceptionally", "extraordinarily", "tremendously", "vastly"}

JJTags == {"JJ", "JJR", "JJS"}

VBTags == {"VB", "VBD", "VBG", "VBN", "VBP", "VBZ"}

Detected(token, subtype) ==
    << [text |-> token.text, start |-> token.offset, type |-> subtype] >>

TokenAbsolutisms(token) ==
    (IF token.pos \in {"JJS", "RBS"} THEN Detected(token, "superlative") ELSE <<>>)
    \o (IF token.lemma \in absoluteWords \/ "absoluteWords" \in token.wordIn
        THEN Detected(token, "absolute_word") ELSE <<>>)
    \o (IF token.lemma \in intensifiers THEN Detected(token, "intensifier") ELSE <<>>)

TokenInversions(token) ==
    (IF "negativeContractions" \in token.wordIn
     THEN Detected(token, "contraction") ELSE <<>>)
    \o (IF token.lemma = "not" \/ "no" \in token.wordIn \/ token.lemma = "never"
        THEN Detected(token, "negation") ELSE <<>>)
    \o (IF token.pos \in JJTags \cup VBTags /\ "negativePrefixes" \in token.wordIn
        THEN Detected(token, "negative_prefix") ELSE <<>>)

PhraseSpans(matches) ==
    [k \in 1..Len(matches) |->
        [text |-> matches[k].text, start |-> matches[k].start, type |-> "phrase"]]

\* A detector's result: the list it returns, or an exception (threw). `fails`
\* says that a step inside its try block throws.
Returned(spans) == [threw |-> FALSE, spans |-> spans]

Thrown == [threw |-> TRUE, spans |-> <<>>]

detectAbsolutismsNLP_rethrow(nlpv, doc, fails) ==
    IF nlpv = NULL THEN Returned(<<>>)
    ELSE IF fails THEN Thrown
    ELSE Returned(Flatten([k \in 1..Len(doc.tokens) |-> TokenAbsolutisms(doc.tokens[k])])
                  \o PhraseSpans(doc.absPhrases))

detectAbsolutismsNLP(nlpv, doc, fails) ==
    IF nlpv = NULL THEN Returned(<<>>)
    ELSE IF fails THEN Returned(<<>>)
    ELSE Returned(Flatten([k \in 1..Len(doc.tokens) |-> TokenAbsolutisms(doc.tokens[k])])
                  \o PhraseSpans(doc.absPhrases))

detectInversionsNLP(nlpv, doc, fails) ==
    IF nlpv = NULL THEN Returned(<<>>)
    ELSE IF fails THEN Returned(<<>>)
    ELSE Returned(Flatten([k \in 1..Len(doc.tokens) |-> TokenInversions(doc.tokens[k])])
                  \o PhraseSpans(doc.invPhrases))

----------------------------------------------------------------------------
(* Span resolver: sort, overlap filter, splice                             *)

RECURSIVE InsertAscending_beforeEqual(_, _)
InsertAscending_beforeEqual(sorted, h) ==
    IF sorted = <<>> THEN <<h>>
    ELSE IF h.start <= Head(sorted).start THEN <<h>> \o sorted
    ELSE <<Head(sorted)>> \o InsertAscending_beforeEqual(Tail(sorted), h)

RECURSIVE sortAscending_unstable(_)
sortAscending_unstable(hs) ==
    IF hs = <<>> THEN <<>>
    ELSE InsertAscending_beforeEqual(sortAscending_unstable(SubSeq(hs, 1, Len(hs) - 1)),
                                     hs[Len(hs)])

\* Array.prototype.sort is stable: an element goes after those that compare
\* equal to it and came before it.
RECURSIVE InsertAscending(_, _)
InsertAscending(sorted, h) ==
    IF sorted = <<>> THEN <<h>>
    ELSE IF h.start < Head(sorted).start THEN <<h>> \o sorted
    ELSE <<Head(sorted)>> \o InsertAscending(Tail(sorted), h)

\* highlights.sort((a, b) => a.start - b.start)
RECURSIVE sortAscending(_)
sortAscending(hs) ==
    IF hs = <<>> THEN <<>>
    ELSE InsertAscending(sortAscending(SubSeq(hs, 1, Len(hs) - 1)), hs[Len(hs)])

RECURSIVE InsertDescending(_, _)
InsertDescending(sorted, h) ==
    IF sorted = <<>> THEN <<h>>
    ELSE IF h.start > Head(sorted).start THEN <<h>> \o sorted
    ELSE <<Head(sorted)>> \o InsertDescending(Tail(sorted), h)

\* filteredHighlights.sort((a, b) => b.start - a.start)
RECURSIVE sortDescending(_)
sortDescending(hs) ==
    IF hs = <<>> THEN <<>>
    ELSE InsertDescending(sortDescending(SubSeq(hs, 1, Len(hs) - 1)), hs[Len(hs)])

isOverlapping_endOnly(highlight, existing) ==
    highlight.end > existing.start /\ highlight.end <= existing.end

isOverlapping(highlight, existing) ==
    \/ (highlight.start >= existing.start /\ highlight.start < existing.end)
    \/ (highlight.end > existing.start /\ highlight.end <= existing.end)

\* the loop over the sorted highlights: one that overlaps none of those kept
\* so far is kept
RECURSIVE filterOverlaps(_, _)
filterOverlaps(hs, filteredHighlights) ==
    IF hs = <<>> THEN filteredHighlights
    ELSE filterOverlaps(
           Tail(hs),
           IF \E k \in 1..Len(filteredHighlights) :
                  isOverlapping(Head(hs), filteredHighlights[k])
           THEN filteredHighlights
           ELSE Append(filteredHighlights, Head(hs)))

Wrapped(highlight) ==
    SpanOpen(highlight.class) \o highlight.text \o SpanClose

\* filteredHighlights.forEach: each highlight is spliced into processedText at
\* its own start and end
RECURSIVE applyHighlights(_, _)
applyHighlights(processedText, hs) ==
    IF hs = <<>> THEN processedText
    ELSE LET highlight == Head(hs)
             before == substring(processedText, 0, highlight.start)
             after == substringFrom(processedText, highlight.end)
         IN  applyHighlights(before \o Wrapped(highlight) \o after, Tail(hs))

TensionHighlight(match) ==
    [text |-> match.text, start |-> match.start, end |-> match.end,
     type |-> match.type, class |-> "highlight-tension"]

NlpHighlight(span, type) ==
    [text |-> span.text, start |-> span.start, end |-> span.start + Len(span.text),
     type |-> type, class |-> "highlight-" \o type]

Highlights(spans, type) == [k \in 1..Len(spans) |-> NlpHighlight(spans[k], type)]

\* the three forEach loops push onto highlights in this order: the tension
\* matches, then the absolutisms, then the inversions
collectHighlights(tensionMatches, absolutisms, inversions) ==
    [k \in 1..Len(tensionMatches) |-> TensionHighlight(tensionMatches[k])]
    \o Highlights(absolutisms, "absolutism")
    \o Highlights(inversions, "inversion")

addAll_caseSensitive(allMatches, spans) ==
    allMatches \cup { spans[k].text : k \in 1..Len(spans) }

\* allMatches.add(text.toLowerCase()) for each span of a list
RECURSIVE addAll(_, _)
addAll(allMatches, spans) ==
    IF spans = <<>> THEN allMatches
    ELSE addAll(allMatches \cup {toLowerCase(Head(spans).text)}, Tail(spans))

----------------------------------------------------------------------------
(* analyzeText                                                             *)

\* The locals of the latest invocation of analyzeText that ran, the closure it
\* ran with (text, nlp, isNlpLoaded) and how it ended:
\*   outcome: none | empty (blank input) | ok | caught (the catch block ran)
\*   promise: none | fulfilled | rejected (the async function's promise)
\*   calls:   the detectors called, in order
\*   failed:  the NLP detectors whose try block threw
NoFrame ==
    [text |-> <<>>, nlp |-> NULL, isNlpLoaded |-> FALSE,
     outcome |-> "none", promise |-> "none", calls |-> <<>>, failed |-> {},
     tensionMatches |-> <<>>, absolutisms |-> <<>>, inversions |-> <<>>,
     highlights |-> <<>>, filteredHighlights |-> <<>>]

\* the values analyzeText closes over (its useCallback dependencies)
Closure == [text |-> inputText, nlp |-> nlp, isNlpLoaded |-> isLoaded]

IsBlankInput_emptyOnly(text) == text = <<>>

\* !inputText.trim()
IsBlankInput(text) == trim(text) = <<>>

\* disabled={isAnalyzing}
ButtonDisabled_never == FALSE

ButtonDisabled == isAnalyzing

\* What the environment decides for one run of the try block with closure c:
\* the tokenizer's answer and whether a step inside each detector's try throws
\* (both only matter when the detectors are called), or that a step of
\* analyzeText's own try block throws (and which).
Environments(c) ==
    LET called == c.isNlpLoaded /\ c.nlp # NULL
    IN  [doc : {NoDoc}, absFails : {FALSE}, invFails : {FALSE},
         threwAt : {"findTensionPhrases", "resolution"}]
        \cup [doc : IF called THEN Docs(c.text) ELSE {NoDoc},
              absFails : IF called THEN BOOLEAN ELSE {FALSE},
              invFails : IF called THEN BOOLEAN ELSE {FALSE},
              threwAt : {"nowhere"}]

catchBlock_rethrow ==
    [highlightedText |-> highlightedText, stats |-> stats, promise |-> "rejected"]

\* catch (error) { ... }: the failure message, all counts zero
catchBlock ==
    [highlightedText |-> FailedMarkup, stats |-> ZeroStats, promise |-> "fulfilled"]

\* The try block, from escapeHtml to setStats, and the catch block: the new
\* highlightedText and stats, and the frame that records the run.
TryBlock(c, env) ==
    LET processedText == escapeHtml(c.text)
        tensionThrew == env.threwAt = "findTensionPhrases"
        tensionMatches == IF tensionThrew THEN <<>> ELSE findTensionPhrases(c.text)
        nlpReady == ~tensionThrew /\ c.isNlpLoaded /\ c.nlp # NULL
        abs == IF nlpReady THEN detectAbsolutismsNLP(c.nlp, env.doc, env.absFails)
               ELSE Returned(<<>>)
        invCalled == nlpReady /\ ~abs.threw
        inv == IF invCalled THEN detectInversionsNLP(c.nlp, env.doc, env.invFails)
               ELSE Returned(<<>>)
        calls == <<"findTensionPhrases">>
                 \o (IF nlpReady THEN <<"detectAbsolutismsNLP">> ELSE <<>>)
                 \o (IF invCalled THEN <<"detectInversionsNLP">> ELSE <<>>)
        failed == (IF nlpReady /\ env.absFails THEN {"absolutism"} ELSE {})
                  \cup (IF invCalled /\ env.invFails THEN {"inversion"} ELSE {})
        allMatches == addAll(addAll(addAll({}, tensionMatches), abs.spans), inv.spans)
        highlights == collectHighlights(tensionMatches, abs.spans, inv.spans)
        sorted == sortAscending(highlights)
        filteredHighlights == sortDescending(filterOverlaps(sorted, <<>>))
        spliced == applyHighlights(processedText, filteredHighlights)
        threw == tensionThrew \/ abs.threw \/ inv.threw \/ env.threwAt = "resolution"
        run == [text |-> c.text, nlp |-> c.nlp, isNlpLoaded |-> c.isNlpLoaded,
                outcome |-> IF threw THEN "caught" ELSE "ok",
                promise |-> IF threw THEN catchBlock.promise ELSE "fulfilled",
                calls |-> calls, failed |-> failed,
                tensionMatches |-> tensionMatches,
                absolutisms |-> abs.spans, inversions |-> inv.spans,
                highlights |-> sorted,
                filteredHighlights |-> filteredHighlights]
    IN  IF threw
        THEN [highlightedText |-> catchBlock.highlightedText,
              stats |-> catchBlock.stats,
              frame |-> run]
        ELSE [highlightedText |-> replaceAll(spliced, "\n", BrTag),
              stats |-> [total |-> Cardinality(allMatches),
                         tension |-> Len(tensionMatches),
                         absolutism |-> Len(abs.spans),
                         inversion |-> Len(inv.spans)],
              frame |-> run]

\* a JavaScript task runs to completion: no event is handled between the two
\* setState calls of initializeNLP
TaskIdle == nlpPc \in {"importing", "ready", "failed"}

\* onChange={(e) => setInputText(e.target.value)}
setInputText(value) ==
    /\ TaskIdle
    /\ inputText' = value
    /\ UNCHANGED <<highlightedText, isAnalyzing, stats, nlp, isLoaded, error,
                   nlpPc, pending, frame>>

\* A click on the button: analyzeText up to its first await. Blank input is
\* answered at once; otherwise isAnalyzing is set and the invocation waits for
\* its timer.
analyzeText_click ==
    /\ TaskIdle
    /\ ~ButtonDisabled
    /\ IF IsBlankInput(inputText)
       THEN /\ highlightedText' = EmptyInputMarkup
            /\ stats' = ZeroStats
            /\ frame' = [NoFrame EXCEPT !.text = inputText, !.nlp = nlp,
                                        !.isNlpLoaded = isLoaded,
                                        !.outcome = "empty", !.promise = "fulfilled"]
            /\ UNCHANGED <<isAnalyzing, pending>>
       ELSE /\ isAnalyzing' = TRUE
            /\ pending' = Append(pending, Closure)
            /\ UNCHANGED <<highlightedText, stats, frame>>
    /\ UNCHANGED <<inputText, nlp, isLoaded, error, nlpPc>>

\* The timer of the oldest suspended invocation fires: the rest of the try
\* block, run with the values the invocation closed over, the catch block if a
\* step threw, and the finally block.
analyzeText_resume ==
    /\ TaskIdle
    /\ pending # <<>>
    /\ \E env \in Environments(Head(pending)) :
         LET result == TryBlock(Head(pending), env)
         IN  /\ highlightedText' = result.highlightedText
             /\ stats' = result.stats
             /\ frame' = result.frame
    /\ isAnalyzing' = FALSE
    /\ pending' = Tail(pending)
    /\ UNCHANGED <<inputText, nlp, isLoaded, error, nlpPc>>

----------------------------------------------------------------------------
(* useNLP                                                                  *)

\* both imports resolved: setNlp(nlpInstance)
initializeNLP_setNlp ==
    /\ nlpPc = "importing"
    /\ nlp' = WinkInstance
    /\ nlpPc' = "nlpSet"
    /\ UNCHANGED <<inputText, highlightedText, isAnalyzing, stats, isLoaded,
                   error, pending, frame>>

\* setIsLoaded(true)
initializeNLP_setIsLoaded ==
    /\ nlpPc = "nlpSet"
    /\ isLoaded' = TRUE
    /\ nlpPc' = "ready"
    /\ UNCHANGED <<inputText, highlightedText, isAnalyzing, stats, nlp, error,
                   pending, frame>>

\* an import rejected: setError(err)
initializeNLP_setError ==
    /\ nlpPc = "importing"
    /\ error' = LoadError
    /\ nlpPc' = "errorSet"
    /\ UNCHANGED <<inputText, highlightedText, isAnalyzing, stats, nlp, isLoaded,
                   pending, frame>>

initializeNLP_catchSetIsLoaded_true ==
    /\ nlpPc = "errorSet"
    /\ isLoaded' = TRUE
    /\ nlpPc' = "failed"
    /\ UNCHANGED <<inputText, highlightedText, isAnalyzing, stats, nlp, error,
                   pending, frame>>

\* setIsLoaded(false) in the catch block
initializeNLP_catchSetIsLoaded ==
    /\ nlpPc = "errorSet"
    /\ isLoaded' = FALSE
    /\ nlpPc' = "failed"
    /\ UNCHANGED <<inputText, highlightedText, isAnalyzing, stats, nlp, error,
                   pending, frame>>

nlpStatus ==
    IF error # NULL THEN "NLP Error"
    ELSE IF isLoaded THEN "NLP Ready"
    ELSE "Loading NLP..."

----------------------------------------------------------------------------
(* The interactive specification: the mounted component                    *)

Init ==
    /\ inputText = <<>>
    /\ highlightedText = <<>>
    /\ isAnalyzing = FALSE
    /\ stats = ZeroStats
    /\ nlp = NULL
    /\ isLoaded = FALSE
    /\ error = NULL
    /\ nlpPc = "importing"
    /\ pending = <<>>
    /\ frame = NoFrame

Next ==
    \/ \E value \in TextsOver(TypedChars, MaxLen) : setInputText(value)
    \/ analyzeText_click
    \/ analyzeText_resume
    \/ initializeNLP_setNlp
    \/ initializeNLP_setIsLoaded
    \/ initializeNLP_setError
    \/ initializeNLP_catchSetIsLoaded

Spec == Init /\ [][Next]_vars

\* a pending timer fires, and a started task runs to its end
FairSpec ==
    /\ Spec
    /\ WF_vars(analyzeText_resume)
    /\ WF_vars(initializeNLP_setIsLoaded)
    /\ WF_vars(initializeNLP_catchSetIsLoaded)

----------------------------------------------------------------------------
(* The one-shot specification: one invocation of analyzeText on any text   *)
(* over Alphabet, with the tokenizer loaded or failed                      *)

InitAnalyze ==
    /\ inputText \in TextsOver(Alphabet, MaxAnalyzeLen)
    /\ highlightedText = <<>>
    /\ isAnalyzing = FALSE
    /\ stats = ZeroStats
    /\ \E loaded \in BOOLEAN :
         /\ nlp = IF loaded THEN WinkInstance ELSE NULL
         /\ isLoaded = loaded
         /\ error = IF loaded THEN NULL ELSE LoadError
         /\ nlpPc = IF loaded THEN "ready" ELSE "failed"
    /\ pending = <<>>
    /\ frame = NoFrame

\* one invocation: a click on the fresh component, then its timer
NextAnalyze ==
    \/ (frame.outcome = "none" /\ analyzeText_click)
    \/ analyzeText_resume

SpecAnalyze == InitAnalyze /\ [][NextAnalyze]_vars

----------------------------------------------------------------------------
(* The overlap specification: the sort and the overlap filter on any lists *)
(* of spans the three detectors may return                                 *)

FilterText == [k \in 1..MaxPos |-> "a"]

Intervals == { p \in (0..MaxPos) \X (0..MaxPos) : p[1] < p[2] }

TensionMatchOf(p) ==
    [text |-> substring(FilterText, p[1], p[2]), start |-> p[1], end |-> p[2],
     type |-> "tension"]

PhraseSpanOf(p) ==
    [text |-> substring(FilterText, p[1], p[2]), start |-> p[1], type |-> "phrase"]

InitFilter ==
    /\ inputText = FilterText
    /\ highlightedText = <<>>
    /\ isAnalyzing = TRUE
    /\ stats = ZeroStats
    /\ nlp = WinkInstance
    /\ isLoaded = TRUE
    /\ error = NULL
    /\ nlpPc = "ready"
    /\ pending = <<>>
    /\ \E n \in 0..MaxSpans :
         \E ps \in [1..n -> Intervals] :
           \E i \in 0..n :
             \E j \in i..n :
               LET tensionMatches == [k \in 1..i |-> TensionMatchOf(ps[k])]
                   absolutisms == [k \in 1..(j - i) |-> PhraseSpanOf(ps[i + k])]
                   inversions == [k \in 1..(n - j) |-> PhraseSpanOf(ps[j + k])]
               IN  frame = [NoFrame EXCEPT
                              !.text = FilterText, !.nlp = WinkInstance,
                              !.isNlpLoaded = TRUE, !.outcome = "collected",
                              !.tensionMatches = tensionMatches,
                              !.absolutisms = absolutisms,
                              !.inversions = inversions,
                              !.highlights = collectHighlights(tensionMatches,
                                                               absolutisms, inversions)]

\* highlights.sort(...) and the loop that fills filteredHighlights
resolveOverlaps ==
    /\ frame.outcome = "collected"
    /\ frame' = [frame EXCEPT
                   !.highlights = sortAscending(frame.highlights),
                   !.filteredHighlights =
                       filterOverlaps(sortAscending(frame.highlights), <<>>),
                   !.outcome = "resolved"]
    /\ UNCHANGED <<inputText, highlightedText, isAnalyzing, stats, nlp, isLoaded,
                   error, nlpPc, pending>>

NextFilter == resolveOverlaps

SpecFilter == InitFilter /\ [][NextFilter]_vars

----------------------------------------------------------------------------
(* Claims about the overlap filter (SpecFilter)                            *)

Kept == frame.filteredHighlights

\* two spans share a character
SharesCharacter(a, b) == a.start < b.end /\ b.start < a.end

\* C1: after the overlap filter the kept spans are pairwise non-overlapping:
\* for all distinct kept spans A and B, A.end <= B.start or B.end <= A.start,
\* whatever spans (with start < end) the detectors returned.
C1_KeptPairwiseDisjoint ==
    frame.outcome = "resolved" =>
        \A i, j \in 1..Len(Kept) :
            i # j => (Kept[i].end <= Kept[j].start \/ Kept[j].end <= Kept[i].start)

\* a candidate that shares its start with a kept span and strictly contains it
\* was dropped, and two spans were kept
C1_Witness ==
    /\ frame.outcome = "resolved"
    /\ Len(Kept) >= 2
    /\ \E c \in 1..Len(frame.highlights) :
         \E k \in 1..Len(Kept) :
            /\ frame.highlights[c].start = Kept[k].start
            /\ frame.highlights[c].end > Kept[k].end

\* the greedy rule stated on positions: the span at position i of the sorted
\* list is kept exactly when it shares no character with a kept span before it
RECURSIVE KeptPositions(_, _)
KeptPositions(hs, n) ==
    IF n = 0 THEN {}
    ELSE LET before == KeptPositions(hs, n - 1)
         IN  IF \E j \in before : SharesCharacter(hs[n], hs[j])
             THEN before
             ELSE before \cup {n}

TypeRank(type) ==
    CASE type = "tension" -> 1 [] type = "absolutism" -> 2 [] type = "inversion" -> 3

ExampleSpan(start, end) ==
    [text |-> [k \in 1..(end - start) |-> "a"], start |-> start, end |-> end,
     type |-> "tension", class |-> "highlight-tension"]

\* C6: the filter is first-come-first-served in ascending start order: a span
\* is kept exactly when it overlaps no span kept before it (a dropped span
\* blocks nothing); spans [{0,5},{2,8},{10,12}] give [{0,5},{10,12}]; of spans
\* with the same start the one earlier in the concatenated list survives, so
\* tension beats absolutism and absolutism beats inversion.
C6_GreedyFirstComeFirstServed ==
    /\ filterOverlaps(sortAscending(<<ExampleSpan(0, 5), ExampleSpan(2, 8),
                                      ExampleSpan(10, 12)>>), <<>>)
         = <<ExampleSpan(0, 5), ExampleSpan(10, 12)>>
    /\ frame.outcome = "resolved" =>
         LET hs == frame.highlights
             positions == KeptPositions(hs, Len(hs))
         IN  /\ \A i \in 1..(Len(hs) - 1) : hs[i].start <= hs[i + 1].start
             /\ Kept = [k \in 1..Cardinality(positions) |-> hs[SortedSeq(positions)[k]]]
             /\ \A k \in 1..Len(Kept) :
                  \A h \in 1..Len(hs) :
                     hs[h].start = Kept[k].start
                        => TypeRank(Kept[k].type) <= TypeRank(hs[h].type)

\* a tension span was kept and an absolutism with the same start dropped, and
\* a later span was kept although it overlaps the dropped one
C6_Witness ==
    /\ frame.outcome = "resolved"
    /\ \E i, j, k \in 1..Len(frame.highlights) :
         LET hs == frame.highlights
             positions == KeptPositions(hs, Len(hs))
         IN  /\ i < j /\ j < k
             /\ hs[i].type = "tension" /\ hs[j].type = "absolutism"
             /\ hs[i].start = hs[j].start
             /\ i \in positions /\ j \notin positions /\ k \in positions
             /\ SharesCharacter(hs[j], hs[k])

----------------------------------------------------------------------------
(* Claims about one analysis (SpecAnalyze)                                 *)

RawSpans == frame.tensionMatches \o frame.absolutisms \o frame.inversions

\* C4: after a successful analysis total is the number of distinct lowercased
\* texts of the raw spans of the three detectors, tension, absolutism and
\* inversion are the numbers of spans each detector returned, and so
\* total <= tension + absolutism + inversion; the overlap filter changes none.
C4_CountsAreRaw ==
    frame.outcome = "ok" =>
        /\ stats.total = Cardinality({ toLowerCase(RawSpans[k].text) : k \in 1..Len(RawSpans) })
        /\ stats.tension = Len(frame.tensionMatches)
        /\ stats.absolutism = Len(frame.absolutisms)
        /\ stats.inversion = Len(frame.inversions)
        /\ stats.total <= stats.tension + stats.absolutism + stats.inversion

\* two raw spans differ only in case, so total is below the sum, and the number
\* of spans rendered is yet another number
C4_Witness ==
    /\ frame.outcome = "ok"
    /\ \E i, j \in 1..Len(RawSpans) :
         /\ RawSpans[i].text # RawSpans[j].text
         /\ toLowerCase(RawSpans[i].text) = toLowerCase(RawSpans[j].text)
    /\ stats.total < stats.tension + stats.absolutism + stats.inversion
    /\ Len(frame.filteredHighlights) # stats.total
    /\ Len(frame.filteredHighlights) # stats.tension + stats.absolutism + stats.inversion

\* one character of the input as it must appear in the markup
RenderedChar(ch) ==
    CASE ch = "&" -> AmpEntity
      [] ch = "<" -> LtEntity
      [] ch = ">" -> GtEntity
      [] ch = "\n" -> BrTag
      [] OTHER -> <<ch>>

RenderedPlain(text) == Flatten([k \in 1..Len(text) |-> RenderedChar(text[k])])

\* the '&' at position i of the markup starts an entity
StartsEntity(markup, i) ==
    \E entity \in {AmpEntity, LtEntity, GtEntity} :
        SubSeq(markup, i, i + Len(entity) - 1) = entity

\* C7: for a non-blank input on which no detector produces a span, the markup
\* is the input with each '&', '<', '>' replaced by its entity and each newline
\* by the line-break tag: it holds no newline and no raw '<', '>' or '&'.
C7_PlainTextIsEscaped ==
    (frame.outcome = "ok" /\ RawSpans = <<>>) =>
        /\ highlightedText = RenderedPlain(frame.text)
        /\ \A i \in 1..Len(highlightedText) :
             /\ highlightedText[i] \notin {"\n", "<", ">"}
             /\ highlightedText[i] = "&" => StartsEntity(highlightedText, i)

\* an input without spans that holds a '<' before an '&', and a newline
C7_Witness ==
    /\ frame.outcome = "ok"
    /\ RawSpans = <<>>
    /\ \E i, j, k \in 1..Len(frame.text) :
         /\ i < j
         /\ frame.text[i] = "<" /\ frame.text[j] = "&" /\ frame.text[k] = "\n"

\* the kept spans in ascending order
KeptAscending == sortAscending(frame.filteredHighlights)

\* one pass from left to right: the escaped text between the kept spans is
\* copied and each kept span's text is wrapped
RECURSIVE LeftToRight(_, _, _)
LeftToRight(text, from, spans) ==
    IF spans = <<>> THEN RenderedPlain(substringFrom(text, from))
    ELSE RenderedPlain(substring(text, from, Head(spans).start))
         \o SpanOpen(Head(spans).class)
         \o RenderedPlain(Head(spans).text)
         \o SpanClose
         \o LeftToRight(text, Head(spans).end, Tail(spans))

NoMarkupCharIn(text) == \A k \in 1..Len(text) : text[k] \notin {"&", "<", ">"}

\* C9: when no detected span text contains '&', '<' or '>', the markup made
\* by escaping once and splicing the kept spans in descending start order
\* equals the single left-to-right pass: each wrapper replaces exactly the
\* characters of its own span.
C9_SpliceEqualsLeftToRight ==
    (frame.outcome = "ok" /\ \A k \in 1..Len(RawSpans) : NoMarkupCharIn(RawSpans[k].text)) =>
        highlightedText = LeftToRight(frame.text, 0, KeptAscending)

\* what does hold: the splice is right when no '&', '<' or '>' stands before
\* the end of the last kept span
C9_SpliceRightAfterPlainPrefix ==
    (/\ frame.outcome = "ok"
     /\ \A k \in 1..Len(Kept) : NoMarkupCharIn(substring(frame.text, 0, Kept[k].end))) =>
        highlightedText = LeftToRight(frame.text, 0, KeptAscending)

----------------------------------------------------------------------------
(* Claims about the mounted component (Spec, FairSpec)                     *)

WellFormedStats ==
    /\ DOMAIN stats = {"total", "tension", "absolutism", "inversion"}
    /\ \A field \in DOMAIN stats : stats[field] \in Nat

C2_ResultWellFormed ==
    /\ frame.promise # "rejected"
    /\ frame.outcome \in {"empty", "ok", "caught"} => frame.promise = "fulfilled"
    /\ WellFormedStats
    /\ frame.outcome = "caught" =>
         (highlightedText = FailedMarkup /\ stats = ZeroStats)
    /\ frame.outcome = "ok" =>
         (highlightedText \notin {FailedMarkup, EmptyInputMarkup}
          /\ highlightedText # <<>>)

\* C2: every invocation of analyzeText ends without raising to its caller and
\* leaves a well-formed result: the annotated markup with its counts, or, when
\* a step of detection or resolution throws, the failure message with all four
\* counts zero; and whenever isAnalyzing was set to true it is set back to
\* false.
C2_AlwaysSettles ==
    /\ []C2_ResultWellFormed
    /\ (isAnalyzing ~> ~isAnalyzing)

\* a step of the try block threw, and the invocation has ended
C2_Witness ==
    /\ frame.outcome = "caught"
    /\ frame.promise = "fulfilled"
    /\ ~isAnalyzing
    /\ pending = <<>>

OnlyWhitespace(text) == \A k \in 1..Len(text) : text[k] \in WhitespaceChars

\* C3: a click with empty or whitespace-only input runs no detector, shows the
\* placeholder and sets all four counts to zero, whatever the previous result
\* and the tokenizer's state, and leaves isAnalyzing as it was.
C3_BlankInputShortCircuits ==
    [][(analyzeText_click /\ OnlyWhitespace(inputText)) =>
          /\ highlightedText' = EmptyInputMarkup
          /\ stats' = ZeroStats
          /\ frame'.calls = <<>>
          /\ frame'.outcome = "empty"
          /\ isAnalyzing' = isAnalyzing
          /\ pending' = pending]_vars

\* a whitespace-only, non-empty input was answered with the tokenizer ready
C3_Witness ==
    /\ frame.outcome = "empty"
    /\ frame.text # <<>>
    /\ frame.isNlpLoaded
    /\ highlightedText = EmptyInputMarkup

NlpWasReady == frame.isNlpLoaded /\ frame.nlp # NULL

\* the opening tag, text and closing tag of a span stand in the markup
IsRendered(span) ==
    \E i \in 1..Len(highlightedText) :
        SubSeq(highlightedText, i, i + Len(span.text) + 1)
            = SpanOpen("highlight-tension") \o span.text \o SpanClose

\* C5: when the tokenizer is not ready as analyze is invoked, or an NLP
\* detector fails internally, the analysis still succeeds: that detector gives
\* no span and a count of zero, the tension spans found on the raw text are
\* counted and rendered, and a failure of the absolutism detector does not keep
\* the inversion detector from running.
C5_DegradesSoftly ==
    /\ (frame.outcome \in {"ok", "caught"} /\ frame.failed # {}) => frame.outcome = "ok"
    /\ frame.outcome = "ok" =>
         /\ ~NlpWasReady =>
              /\ frame.absolutisms = <<>> /\ stats.absolutism = 0
              /\ frame.inversions = <<>> /\ stats.inversion = 0
              /\ frame.failed = {}
         /\ "absolutism" \in frame.failed =>
              /\ frame.absolutisms = <<>> /\ stats.absolutism = 0
              /\ frame.calls = <<"findTensionPhrases", "detectAbsolutismsNLP",
                                 "detectInversionsNLP">>
         /\ "inversion" \in frame.failed =>
              (frame.inversions = <<>> /\ stats.inversion = 0)
         /\ (~NlpWasReady \/ frame.failed # {}) =>
              /\ frame.tensionMatches = findTensionPhrases(frame.text)
              /\ stats.tension = Len(frame.tensionMatches)
              /\ (frame.tensionMatches # <<>> /\ frame.absolutisms \o frame.inversions = <<>>) =>
                   /\ Kept # <<>>
                   /\ \A k \in 1..Len(Kept) :
                        Kept[k].type = "tension" /\ IsRendered(Kept[k])

\* the absolutism detector failed, the inversion detector found a span, and a
\* tension span is counted
C5_Witness ==
    /\ frame.outcome = "ok"
    /\ "absolutism" \in frame.failed
    /\ frame.inversions # <<>>
    /\ stats.tension > 0

TriState ==
    IF error # NULL THEN "failed"
    ELSE IF isLoaded THEN "ready"
    ELSE "uninitialized"

C8_StatesExclusive ==
    /\ ~(isLoaded /\ error # NULL)
    /\ isLoaded => nlp # NULL
    /\ error # NULL => (nlp = NULL /\ ~isLoaded)
    /\ nlpStatus = "NLP Error" <=> TriState = "failed"
    /\ nlpStatus = "NLP Ready" <=> TriState = "ready"
    /\ nlpStatus = "Loading NLP..." <=> TriState = "uninitialized"

\* C8: the readiness useNLP exposes starts uninitialized (isLoaded false, error
\* null), moves at most once to ready (isLoaded true, nlp non-null, error null)
\* or to failed (error set, isLoaded false, nlp null) and never leaves either;
\* ready and failed never hold together, isLoaded implies nlp non-null, and
\* failed differs from still loading.
C8_TriStateSetOnce ==
    /\ TriState = "uninitialized"
    /\ []C8_StatesExclusive
    /\ [][/\ TriState # "uninitialized" => TriState' = TriState
          /\ TriState = "ready" => nlp' = nlp]_vars

\* the load failed
C8_Witness ==
    /\ nlpPc = "failed"
    /\ TriState = "failed"
    /\ nlpStatus = "NLP Error"

\* C10: at most one analysis is in flight: from the moment an invocation sets
\* isAnalyzing until its finally block resets it the button is disabled and no
\* second invocation starts, and the markup and the counts shown are those of
\* one and the same invocation.
C10_OneInFlight ==
    /\ Len(pending) <= 1
    /\ isAnalyzing <=> pending # <<>>
    /\ frame.outcome = "none" => (highlightedText = <<>> /\ stats = ZeroStats)
    /\ frame.outcome = "empty" => (highlightedText = EmptyInputMarkup /\ stats = ZeroStats)
    /\ frame.outcome = "caught" => (highlightedText = FailedMarkup /\ stats = ZeroStats)
    /\ frame.outcome = "ok" =>
         /\ highlightedText =
              replaceAll(applyHighlights(escapeHtml(frame.text), Kept), "\n", BrTag)
         /\ stats.tension = Len(frame.tensionMatches)
         /\ stats.absolutism = Len(frame.absolutisms)
         /\ stats.inversion = Len(frame.inversions)

\* an invocation is in flight while the result of an earlier one is shown and
\* the input has been edited since the click
C10_Witness ==
    /\ isAnalyzing
    /\ Len(pending) = 1
    /\ frame.outcome = "ok"
    /\ Head(pending).text # inputText
    /\ Head(pending).text # frame.text

====
